---------------------------- MODULE Spec2Model ----------------------------
(* A model of etl_script.py: the record validator, the batch processor,   *)
(* the store gateway (schema ensure, transactional bulk load, daily       *)
(* aggregate) and the orchestration in main.                              *)
(*                                                                        *)
(* Python values are encoded as follows.                                  *)
(*   - A scalar is [type |-> t, repr |-> r]: its Python type and the     *)
(*     text str() gives for it; None is the scalar of type NoneType.      *)
(*   - A list is [type |-> "list", items |-> s], s a sequence.            *)
(*   - A raw record is [type |-> "dict", fields |-> f], f a function from *)
(*     the keys present to their values; an array element that is not a   *)
(*     mapping is the scalar it is (here: None, from a JSON null).        *)
(*   - The table grader_attempts is a bag of rows: the rows without the   *)
(*     store-assigned id and loaded_at.                                   *)
(*   - success_rate is kept in hundredths of a percent (7500 is 75.0).    *)
EXTENDS Integers, Sequences, FiniteSets, Bags, TLC

VARIABLES
    pc,             \* position of main, or of the function under check
    run,            \* number of invocations of main started so far
    window_data,    \* what the remote API holds for the configured window
    raw_data,       \* main: raw_data (None or a list of raw records)
    validated,      \* process_data: validated
    skipped,        \* process_data: skipped
    store,          \* committed rows of grader_attempts
    store0,         \* the committed rows when the current run started
    txn,            \* rows inserted by the open, uncommitted transaction
    page,           \* number of pages execute_values has executed
    rowcount,       \* cursor.rowcount
    loaded_count,   \* main: loaded_count (None until load returns)
    stats,          \* main: stats (None or the statistics dict)
    calls,          \* the gateway/publish functions main has invoked in this run
    outcome,        \* how the run ended
    fault,          \* the persistence fault raised in this run
    date_for_stats, \* main: date_for_stats
    record,         \* validate_record: its argument
    result          \* validate_record: its return value

vars == <<pc, run, window_data, raw_data, validated, skipped, store, store0,
          txn, page, rowcount, loaded_count, stats, calls, outcome, fault,
          date_for_stats, record, result>>

-----------------------------------------------------------------------------
(* Bounds *)

\* Largest number of records one fetch returns.
MaxLen == 3

\* Largest number of invocations of main in one behaviour.
MaxRuns == 2

\* Rows per INSERT statement of execute_values. psycopg2's default page_size
\* is 100; the model keeps the paging and scales the page down.
PageSize == 2

\* Largest table the aggregate query is checked on by itself.
MaxRows == 4

-----------------------------------------------------------------------------
(* Python values *)

J(t, r) == [type |-> t, repr |-> r]

None == J("NoneType", "None")

PyTrue == J("bool", "True")

PyFalse == J("bool", "False")

PyList(s) == [type |-> "list", items |-> s]

\* The sequences over S of length at most n.
SeqUpTo(S, n) == UNION {[1..k -> S] : k \in 0..n}

\* The bag of the elements of a sequence.
SeqToBag(s) ==
    [e \in {s[i] : i \in DOMAIN s} |-> Cardinality({i \in DOMAIN s : s[i] = e})]

\* The number of rows of bag B, with multiplicity, that are in the set S.
CountIn(B, S) == BagCardinality([e \in BagToSet(B) \cap S |-> B[e]])

-----------------------------------------------------------------------------
(* Raw records *)

Fields == {"lti_user_id", "passback_params", "attempt_type", "is_correct", "created_at"}

PassbackDictStr == "{'oauth_consumer_key': 'abc', 'lis_result_sourcedid': 'sid'}"

TsMicro == "2023-05-31 10:00:00.123456"

TsSec == "2023-06-01 10:00:00"

FullMappings ==
    [lti_user_id     : {J("str", "u1"), J("int", "7")},
     passback_params : {None, J("str", "None"), J("str", PassbackDictStr),
                        J("str", "[1, 2]"), J("str", "not a dict")},
     attempt_type    : {J("str", "run"), J("str", "submit"), J("str", "practice"),
                        J("str", "Run")},
     is_correct      : {None, J("int", "0"), J("int", "1"), J("int", "2"),
                        PyTrue, PyFalse, J("str", "yes")},
     created_at      : {J("str", TsMicro), J("str", TsSec), J("str", "31/05/2023"),
                        J("int", "1685527200")}]

Mapping(f) == [type |-> "dict", fields |-> f]

\* Every raw record the validator is checked on: each key absent or present
\* with each of its values, and the element that is not a mapping.
RawRecords ==
    {Mapping([k \in S |-> f[k]]) : f \in FullMappings, S \in SUBSET Fields}
        \cup {None}

-----------------------------------------------------------------------------
(* parse_passback_params *)

\* ast.literal_eval on the strings of the model: the value it returns, or the
\* exception it raises.
LiteralEval(str) ==
    CASE str = PassbackDictStr ->
            [kind |-> "return",
             value |-> Mapping([k \in {"oauth_consumer_key", "lis_result_sourcedid"} |->
                          IF k = "oauth_consumer_key" THEN J("str", "abc")
                                                      ELSE J("str", "sid")])]
      [] str = "[1, 2]" ->
            [kind |-> "return", value |-> PyList(<<J("int", "1"), J("int", "2")>>)]
      [] OTHER -> [kind |-> "raise", exc |-> "SyntaxError"]

\* The decoded mapping: a function from the keys decoded to their values.
parse_passback_params(passback_str) ==
    IF passback_str = None \/ passback_str = J("str", "None")
    THEN <<>>
    ELSE LET e == LiteralEval(passback_str.repr) IN
         IF e.kind = "raise" THEN <<>>
         ELSE IF e.value.type = "dict" THEN e.value.fields
         ELSE <<>>

\* dict.get(key, default)
DictGet(d, key, default) == IF key \in DOMAIN d THEN d[key] ELSE default

\* str(v)
Str(v) == v.repr

-----------------------------------------------------------------------------
(* validate_record *)

\* The mutant of ValidAttemptTypes: the check lets one more kind through.
AttemptTypesWithPractice == {J("str", "run"), J("str", "submit"), J("str", "practice")}

ValidAttemptTypes == {J("str", "run"), J("str", "submit")}

required == <<"lti_user_id", "passback_params", "attempt_type", "created_at">>

\* The first required field the record lacks, as the loop over `required`
\* finds it; 0 when it has them all.
FirstMissing(f) ==
    IF \A i \in DOMAIN required : required[i] \in DOMAIN f THEN 0
    ELSE CHOOSE i \in DOMAIN required :
            /\ required[i] \notin DOMAIN f
            /\ \A j \in 1..(i - 1) : required[j] \in DOMAIN f

\* datetime.strptime(v, fmt) for the two formats of the validator: "ok", or
\* the exception raised.
Strptime(v, fmt) ==
    IF v.type # "str" THEN "TypeError"
    ELSE IF fmt = "%Y-%m-%d %H:%M:%S.%f" /\ v.repr = TsMicro THEN "ok"
    ELSE IF fmt = "%Y-%m-%d %H:%M:%S" /\ v.repr = TsSec THEN "ok"
    ELSE "ValueError"

\* The outcome of the two nested try blocks around strptime: "ok", "reject"
\* (both formats raise ValueError) or the exception that escapes them.
ParseCreatedAt(v) ==
    LET first == Strptime(v, "%Y-%m-%d %H:%M:%S.%f") IN
    IF first = "ok" THEN "ok"
    ELSE IF first # "ValueError" THEN first
    ELSE LET second == Strptime(v, "%Y-%m-%d %H:%M:%S") IN
         IF second = "ok" THEN "ok"
         ELSE IF second # "ValueError" THEN second
         ELSE "reject"

\* The coercion of is_correct: the value kept, or "reject".
CoerceIsCorrect(v) ==
    IF v = None THEN [kind |-> "value", value |-> None]
    ELSE IF v.type \in {"int", "bool"}
         THEN [kind |-> "value",
               value |-> IF v.repr \in {"0", "False"} THEN PyFalse ELSE PyTrue]
    ELSE [kind |-> "reject"]

Return(v) == [kind |-> "return", value |-> v]

Raise(e) == [kind |-> "raise", exc |-> e]

\* The body of the try block of validate_record: what it returns, or the
\* exception it raises.
ValidateBody(rec) ==
    IF rec.type # "dict" THEN Raise("TypeError")
    ELSE LET f == rec.fields IN
    IF FirstMissing(f) # 0 THEN Return(None)
    ELSE LET passback_dict == parse_passback_params(f["passback_params"])
             attempt_type == f["attempt_type"]
             is_correct == CoerceIsCorrect(DictGet(f, "is_correct", None))
             parsed == ParseCreatedAt(f["created_at"])
         IN
         IF attempt_type \notin ValidAttemptTypes THEN Return(None)
         ELSE IF is_correct.kind = "reject" THEN Return(None)
         ELSE IF parsed = "reject" THEN Return(None)
         ELSE IF parsed # "ok" THEN Raise(parsed)
         ELSE Return(
            [type |-> "dict",
             user_id |-> Str(f["lti_user_id"]),
             oauth_consumer_key |->
                Str(DictGet(passback_dict, "oauth_consumer_key", J("str", ""))),
             lis_result_sourcedid |->
                Str(DictGet(passback_dict, "lis_result_sourcedid", J("str", ""))),
             lis_outcome_service_url |->
                Str(DictGet(passback_dict, "lis_outcome_service_url", J("str", ""))),
             is_correct |-> is_correct.value,
             attempt_type |-> attempt_type.repr,
             created_at |-> f["created_at"].repr])

\* The mutant of ValidateExcept: the handler lets the exception through.
ValidateExceptReraise(body) == body

\* The handler of `except Exception`: the fault is logged and None returned.
ValidateExcept(body) == Return(None)

validate_record(rec) ==
    LET body == ValidateBody(rec) IN
    IF body.kind = "raise" THEN ValidateExcept(body) ELSE body

-----------------------------------------------------------------------------
(* process_data *)

\* bool(v) of `if valid:`, `if result:` and `if stats:`: None and the empty
\* tuple are false; the dicts of this program are never empty.
Truthy(v) ==
    IF v = None THEN FALSE
    ELSE IF v.type = "tuple" THEN Len(v.items) > 0
    ELSE TRUE

\* The mutant of ProcessStep: an accepted record is put in front of the list.
ProcessStepPrepend(acc, rec) ==
    LET valid == validate_record(rec).value IN
    IF Truthy(valid)
    THEN [validated |-> <<valid>> \o acc.validated, skipped |-> acc.skipped]
    ELSE [validated |-> acc.validated, skipped |-> acc.skipped + 1]

\* One turn of the loop of process_data.
ProcessStep(acc, rec) ==
    LET valid == validate_record(rec).value IN
    IF Truthy(valid)
    THEN [validated |-> Append(acc.validated, valid), skipped |-> acc.skipped]
    ELSE [validated |-> acc.validated, skipped |-> acc.skipped + 1]

RECURSIVE ProcessLoop(_, _)
ProcessLoop(acc, rest) ==
    IF rest = <<>> THEN acc
    ELSE ProcessLoop(ProcessStep(acc, Head(rest)), Tail(rest))

\* validated is what process_data returns; skipped is what it logs.
process_data(raw_items) == ProcessLoop([validated |-> <<>>, skipped |-> 0], raw_items)

-----------------------------------------------------------------------------
(* Store gateway *)

\* The tuple load_data_to_database builds of a normalized attempt, as the
\* row the INSERT adds.
Row(r) ==
    [user_id |-> r.user_id,
     oauth_consumer_key |-> r.oauth_consumer_key,
     lis_result_sourcedid |-> r.lis_result_sourcedid,
     lis_outcome_service_url |-> r.lis_outcome_service_url,
     is_correct |-> r.is_correct,
     attempt_type |-> r.attempt_type,
     created_at |-> r.created_at]

\* values, the list of tuples
Values(records) == [i \in DOMAIN records |-> Row(records[i])]

\* The number of pages execute_values sends for n rows.
PageCount(n) == (n + PageSize - 1) \div PageSize

\* The rows of page k (from 1) of execute_values.
PageRows(values, k) ==
    SubSeq(values, (k - 1) * PageSize + 1,
           IF k * PageSize < Len(values) THEN k * PageSize ELSE Len(values))

\* conn.commit(): the rows of the transaction become the table's.
Commit(st, pending) == st (+) pending

\* The mutant of Rollback: the pages already executed stay in the table.
RollbackKeepsPages(st, pending) == st (+) pending

\* The exit of `with psycopg2.connect(...) as conn` on an exception: the
\* transaction is rolled back.
Rollback(st, pending) == st

\* DATE(created_at)
DateOf(created_at) ==
    CASE created_at = TsMicro -> "2023-05-31"
      [] created_at = TsSec -> "2023-06-01"
      [] OTHER -> "0001-01-01"

\* The mutant of Round2: the quotient is cut, not rounded.
Round2Floor(num, den) == (num * 10000) \div den

\* round(num / den * 100, 2) in hundredths: the nearest hundredth, and of two
\* equally near the even one.
Round2(num, den) ==
    LET q == (num * 10000) \div den
        r == (num * 10000) % den
    IN IF 2 * r < den THEN q
       ELSE IF 2 * r > den THEN q + 1
       ELSE IF q % 2 = 0 THEN q ELSE q + 1

\* The row the aggregate query returns: a SELECT of aggregates without
\* GROUP BY returns one row whatever the table holds.
AggregateRow(st, date) ==
    LET rows == {r \in BagToSet(st) : DateOf(r.created_at) = date} IN
    [type |-> "tuple",
     items |-> << CountIn(st, rows),
                  CountIn(st, {r \in rows : r.is_correct = PyTrue}),
                  CountIn(st, {r \in rows : r.is_correct = PyFalse}),
                  CountIn(st, {r \in rows : r.is_correct = None}),
                  Cardinality({r.user_id : r \in rows}),
                  CountIn(st, {r \in rows : r.attempt_type = "run"}),
                  CountIn(st, {r \in rows : r.attempt_type = "submit"}) >>]

\* get_daily_statistics when the query raises no psycopg2.Error.
get_daily_statistics(st, date) ==
    LET res == AggregateRow(st, date) IN
    IF Truthy(res)
    THEN [type |-> "dict",
          date |-> date,
          total_attempts |-> res.items[1],
          successful_attempts |-> res.items[2],
          failed_attempts |-> res.items[3],
          run_attempts |-> res.items[4],
          unique_users |-> res.items[5],
          run_count |-> res.items[6],
          submit_count |-> res.items[7],
          success_rate |->
              IF res.items[7] > 0 THEN Round2(res.items[2], res.items[7]) ELSE 0]
    ELSE None

-----------------------------------------------------------------------------
(* main *)

\* START_DATE, as its whitespace-separated parts
START_DATE == <<"2023-05-31", "00:00:00.000000">>

PyInt(n) == [type |-> "int", val |-> n]

RecSubmit ==
    Mapping([lti_user_id |-> J("str", "u1"),
             passback_params |-> J("str", PassbackDictStr),
             attempt_type |-> J("str", "submit"),
             is_correct |-> J("int", "1"),
             created_at |-> J("str", TsMicro)])

RecRun ==
    Mapping([lti_user_id |-> J("int", "7"),
             passback_params |-> J("str", "None"),
             attempt_type |-> J("str", "run"),
             created_at |-> J("str", TsSec)])

RecNoDate ==
    Mapping([lti_user_id |-> J("str", "u1"),
             passback_params |-> J("str", PassbackDictStr),
             attempt_type |-> J("str", "submit"),
             is_correct |-> J("int", "1")])

RecPractice ==
    Mapping([lti_user_id |-> J("str", "u1"),
             passback_params |-> J("str", "not a dict"),
             attempt_type |-> J("str", "practice"),
             is_correct |-> J("int", "0"),
             created_at |-> J("str", TsMicro)])

\* The raw records the API returns in the runs of main.
FetchRecords == {RecSubmit, RecRun, RecNoDate, RecPractice}

\* What the API can hold for a window.
Windows == SeqUpTo(FetchRecords, MaxLen)

\* The state of main's locals and of the connection outside a run.
RunReset ==
    /\ raw_data' = None
    /\ validated' = <<>>
    /\ skipped' = 0
    /\ txn' = EmptyBag
    /\ page' = 0
    /\ rowcount' = -1
    /\ loaded_count' = None
    /\ stats' = None
    /\ calls' = {}
    /\ outcome' = "none"
    /\ fault' = "none"
    /\ date_for_stats' = ""

\* main is entered, the API holding w for the configured window.
Begin(w) ==
    /\ pc = "idle"
    /\ run < MaxRuns
    /\ run' = run + 1
    /\ window_data' = w
    /\ store0' = store
    /\ pc' = "fetch"
    /\ UNCHANGED <<raw_data, validated, skipped, store, txn, page, rowcount,
                   loaded_count, stats, calls, outcome, fault, date_for_stats,
                   record, result>>

\* A run for a window of its own.
StartRun == \E w \in Windows : Begin(w)

\* A run for the window of the run before.
Rerun == run > 0 /\ Begin(window_data)

\* The process of a run exits: only the store outlives it.
Exit ==
    /\ pc = "ended"
    /\ pc' = "idle"
    /\ window_data' = <<>>
    /\ store0' = store
    /\ RunReset
    /\ UNCHANGED <<run, store, record, result>>

\* The process of a run exits and the window stays the configured one.
ExitSameWindow ==
    /\ pc = "ended"
    /\ pc' = "idle"
    /\ store0' = store
    /\ RunReset
    /\ UNCHANGED <<run, window_data, store, record, result>>

\* main returns or ends: the run is over.
EndRun(how) ==
    /\ outcome' = how
    /\ pc' = "ended"

\* fetch_data_from_api answers 200 with the window's records.
FetchOk ==
    /\ pc = "fetch"
    /\ raw_data' = PyList(window_data)
    /\ pc' = "fetched"
    /\ UNCHANGED <<run, window_data, validated, skipped, store, store0, txn, page,
                   rowcount, loaded_count, stats, calls, outcome, fault,
                   date_for_stats, record, result>>

\* fetch_data_from_api fails (status, transport or JSON) and returns None.
FetchFail ==
    /\ pc = "fetch"
    /\ raw_data' = None
    /\ pc' = "fetched"
    /\ UNCHANGED <<run, window_data, validated, skipped, store, store0, txn, page,
                   rowcount, loaded_count, stats, calls, outcome, fault,
                   date_for_stats, record, result>>

\* fetch_data_from_api raises what its two except clauses do not catch (a
\* body that is valid JSON and has no len()): main's handler ends the run.
FetchRaise ==
    /\ pc = "fetch"
    /\ outcome' = "failed"
    /\ pc' = "ended"
    /\ UNCHANGED <<run, window_data, raw_data, validated, skipped, store, store0,
                   txn, page, rowcount, loaded_count, stats, calls, fault,
                   date_for_stats, record, result>>

\* `if raw_data is None: return`
StopFetchFailed ==
    /\ pc = "fetched"
    /\ raw_data = None
    /\ EndRun("fetch_failed")
    /\ UNCHANGED <<run, window_data, raw_data, validated, skipped, store, store0,
                   txn, page, rowcount, loaded_count, stats, calls, fault,
                   date_for_stats, record, result>>

\* `if len(raw_data) == 0: return`
StopFetchEmpty ==
    /\ pc = "fetched"
    /\ raw_data # None
    /\ Len(raw_data.items) = 0
    /\ EndRun("no_records")
    /\ UNCHANGED <<run, window_data, raw_data, validated, skipped, store, store0,
                   txn, page, rowcount, loaded_count, stats, calls, fault,
                   date_for_stats, record, result>>

\* The mutant of NoneAccepted: the check after validation never stops the run.
NoneAcceptedNever(v) == FALSE

\* `len(validated_data) == 0`
NoneAccepted(v) == Len(v) = 0

\* process_data, and `if len(validated_data) == 0: return`
Process ==
    /\ pc = "fetched"
    /\ raw_data # None
    /\ Len(raw_data.items) # 0
    /\ LET p == process_data(raw_data.items) IN
        /\ validated' = p.validated
        /\ skipped' = p.skipped
        /\ IF NoneAccepted(p.validated)
           THEN EndRun("none_valid")
           ELSE pc' = "create" /\ UNCHANGED outcome
    /\ UNCHANGED <<run, window_data, raw_data, store, store0, txn, page, rowcount,
                   loaded_count, stats, calls, fault, date_for_stats, record, result>>

\* The `except Exception` of main: the run ends marked failed.
MainExcept == EndRun("failed")

\* create_database_table creates or finds the table and commits.
CreateTable ==
    /\ pc = "create"
    /\ calls' = calls \cup {"create_database_table"}
    /\ pc' = "load"
    /\ UNCHANGED <<run, window_data, raw_data, validated, skipped, store, store0,
                   txn, page, rowcount, loaded_count, stats, outcome, fault,
                   date_for_stats, record, result>>

\* The mutant of CreateTableOnError: the error is logged and swallowed.
CreateTableSwallows == "return"

\* `except psycopg2.Error` of create_database_table: log and raise.
CreateTableOnError == "raise"

\* create_database_table meets a psycopg2.Error.
CreateTableFault ==
    /\ pc = "create"
    /\ calls' = calls \cup {"create_database_table"}
    /\ fault' = "schema"
    /\ IF CreateTableOnError = "raise"
       THEN MainExcept
       ELSE pc' = "load" /\ UNCHANGED outcome
    /\ UNCHANGED <<run, window_data, raw_data, validated, skipped, store, store0,
                   txn, page, rowcount, loaded_count, stats, date_for_stats,
                   record, result>>

\* load_data_to_database is entered: `if not records: return 0`, or the
\* connection is opened and the transaction begins.
LoadBegin ==
    /\ pc = "load"
    /\ calls' = calls \cup {"load_data_to_database"}
    /\ IF Len(validated) = 0
       THEN loaded_count' = PyInt(0) /\ pc' = "aggregate"
       ELSE pc' = "execute_values" /\ UNCHANGED loaded_count
    /\ txn' = EmptyBag
    /\ page' = 0
    /\ UNCHANGED <<run, window_data, raw_data, validated, skipped, store, store0,
                   rowcount, stats, outcome, fault, date_for_stats, record, result>>

\* execute_values executes the INSERT of its next page.
LoadPage ==
    /\ pc = "execute_values"
    /\ page < PageCount(Len(validated))
    /\ LET rows == PageRows(Values(validated), page + 1) IN
        /\ txn' = txn (+) SeqToBag(rows)
        /\ rowcount' = Len(rows)
    /\ page' = page + 1
    /\ UNCHANGED <<pc, run, window_data, raw_data, validated, skipped, store, store0,
                   loaded_count, stats, calls, outcome, fault, date_for_stats,
                   record, result>>

\* conn.commit(), `count = cursor.rowcount`, `return count`
LoadCommit ==
    /\ pc = "execute_values"
    /\ page = PageCount(Len(validated))
    /\ store' = Commit(store, txn)
    /\ txn' = EmptyBag
    /\ loaded_count' = PyInt(rowcount)
    /\ pc' = "aggregate"
    /\ UNCHANGED <<run, window_data, raw_data, validated, skipped, store0, page,
                   rowcount, stats, calls, outcome, fault, date_for_stats,
                   record, result>>

\* A psycopg2.Error in load_data_to_database (connecting, executing a page or
\* committing): the `with` block rolls the transaction back, the error is
\* logged and raised.
LoadFault ==
    /\ pc = "execute_values"
    /\ store' = Rollback(store, txn)
    /\ txn' = EmptyBag
    /\ fault' = "load"
    /\ MainExcept
    /\ UNCHANGED <<run, window_data, raw_data, validated, skipped, store0, page,
                   rowcount, loaded_count, stats, calls, date_for_stats,
                   record, result>>

\* `date_for_stats = start_str.split()[0]` and get_daily_statistics
Aggregate ==
    /\ pc = "aggregate"
    /\ date_for_stats' = START_DATE[1]
    /\ calls' = calls \cup {"get_daily_statistics"}
    /\ stats' = get_daily_statistics(store, START_DATE[1])
    /\ pc' = "publish"
    /\ UNCHANGED <<run, window_data, raw_data, validated, skipped, store, store0,
                   txn, page, rowcount, loaded_count, outcome, fault, record, result>>

\* get_daily_statistics meets a psycopg2.Error and returns None.
AggregateFault ==
    /\ pc = "aggregate"
    /\ date_for_stats' = START_DATE[1]
    /\ calls' = calls \cup {"get_daily_statistics"}
    /\ stats' = None
    /\ pc' = "publish"
    /\ UNCHANGED <<run, window_data, raw_data, validated, skipped, store, store0,
                   txn, page, rowcount, loaded_count, outcome, fault, record, result>>

\* `if stats: upload_to_google_sheets(stats, logger)`, which returns True or
\* False and never raises, and the log line of a successful end.
Finish ==
    /\ pc = "publish"
    /\ calls' = IF Truthy(stats) THEN calls \cup {"upload_to_google_sheets"} ELSE calls
    /\ EndRun("success")
    /\ UNCHANGED <<run, window_data, raw_data, validated, skipped, store, store0,
                   txn, page, rowcount, loaded_count, stats, fault, date_for_stats,
                   record, result>>

Init ==
    /\ pc = "idle"
    /\ run = 0
    /\ window_data = <<>>
    /\ raw_data = None
    /\ validated = <<>>
    /\ skipped = 0
    /\ store = EmptyBag
    /\ store0 = EmptyBag
    /\ txn = EmptyBag
    /\ page = 0
    /\ rowcount = -1
    /\ loaded_count = None
    /\ stats = None
    /\ calls = {}
    /\ outcome = "none"
    /\ fault = "none"
    /\ date_for_stats = ""
    /\ record = None
    /\ result = None

\* The steps of one run of main.
RunStep ==
    \/ FetchOk
    \/ FetchFail
    \/ FetchRaise
    \/ StopFetchFailed
    \/ StopFetchEmpty
    \/ Process
    \/ CreateTable
    \/ CreateTableFault
    \/ LoadBegin
    \/ LoadPage
    \/ LoadCommit
    \/ LoadFault
    \/ Aggregate
    \/ AggregateFault
    \/ Finish

Next == StartRun \/ RunStep \/ Exit

\* Runs of main, each for a window of its own, on one store.
Spec == Init /\ [][Next]_vars

NextRerun == (run = 0 /\ StartRun) \/ Rerun \/ RunStep \/ ExitSameWindow

\* Runs of main that all process the same window, on one store.
SpecRerun == Init /\ [][NextRerun]_vars

-----------------------------------------------------------------------------
(* validate_record by itself, on every raw record *)

InitValidate ==
    /\ pc = "validate"
    /\ record \in RawRecords
    /\ result = None
    /\ run = 0
    /\ window_data = <<>>
    /\ raw_data = None
    /\ validated = <<>>
    /\ skipped = 0
    /\ store = EmptyBag
    /\ store0 = EmptyBag
    /\ txn = EmptyBag
    /\ page = 0
    /\ rowcount = -1
    /\ loaded_count = None
    /\ stats = None
    /\ calls = {}
    /\ outcome = "none"
    /\ fault = "none"
    /\ date_for_stats = ""

\* validate_record(record, logger): result is what it returns or raises.
Validate ==
    /\ pc = "validate"
    /\ result' = validate_record(record)
    /\ pc' = "validated"
    /\ UNCHANGED <<run, window_data, raw_data, validated, skipped, store, store0,
                   txn, page, rowcount, loaded_count, stats, calls, outcome, fault,
                   date_for_stats, record>>

NextValidate == Validate

SpecValidate == InitValidate /\ [][NextValidate]_vars

-----------------------------------------------------------------------------
(* get_daily_statistics by itself, on tables the pipeline can build *)

Dates == {"2023-05-31", "2023-06-01", "2023-06-02"}

\* A raw record the validator accepts.
ValidRaw(user, kind, correct, ts) ==
    Mapping([lti_user_id |-> user,
             passback_params |-> J("str", "None"),
             attempt_type |-> J("str", kind),
             is_correct |-> correct,
             created_at |-> J("str", ts)])

\* Rows the pipeline stores: the rows of accepted records.
AggRows ==
    {Row(validate_record(r).value) :
        r \in {ValidRaw(J("str", "u1"), "submit", J("int", "1"), TsMicro),
               ValidRaw(J("str", "u1"), "submit", J("int", "0"), TsMicro),
               ValidRaw(J("str", "u1"), "submit", None, TsMicro),
               ValidRaw(J("int", "7"), "run", None, TsMicro),
               ValidRaw(J("int", "7"), "run", PyTrue, TsMicro),
               ValidRaw(J("str", "u1"), "submit", J("int", "1"), TsSec)}}

InitAggregate ==
    /\ pc = "query"
    /\ store \in {SeqToBag(s) : s \in SeqUpTo(AggRows, MaxRows)}
    /\ date_for_stats \in Dates
    /\ stats = None
    /\ run = 0
    /\ window_data = <<>>
    /\ raw_data = None
    /\ validated = <<>>
    /\ skipped = 0
    /\ store0 = EmptyBag
    /\ txn = EmptyBag
    /\ page = 0
    /\ rowcount = -1
    /\ loaded_count = None
    /\ calls = {}
    /\ outcome = "none"
    /\ fault = "none"
    /\ record = None
    /\ result = None

\* get_daily_statistics(date_for_stats, logger), the query raising no error
Query ==
    /\ pc = "query"
    /\ stats' = get_daily_statistics(store, date_for_stats)
    /\ pc' = "queried"
    /\ UNCHANGED <<run, window_data, raw_data, validated, skipped, store, store0,
                   txn, page, rowcount, loaded_count, calls, outcome, fault,
                   date_for_stats, record, result>>

NextAggregate == Query

SpecAggregate == InitAggregate /\ [][NextAggregate]_vars

-----------------------------------------------------------------------------
(* Properties *)

\* The rows the current run's batch of accepted records would add.
Batch == SeqToBag(Values(validated))

\* The number of rows the table has gained since the run started.
RowsAdded == BagCardinality(store) - BagCardinality(store0)

\* The positions of the fetched records the validator accepts.
AcceptedAt(items) == {i \in DOMAIN items : validate_record(items[i]).value # None}

\* The run has fetched, and got nothing the pipeline can go on with.
NothingToLoad ==
    /\ pc \notin {"idle", "fetch"}
    /\ \/ raw_data = None
       \/ AcceptedAt(raw_data.items) = {}

\* process_data has returned in the current run.
Processed ==
    \/ pc \in {"create", "load", "execute_values", "aggregate", "publish"}
    \/ pc = "ended" /\ outcome \notin {"fetch_failed", "no_records"} /\ raw_data # None

\* C1: Bulk load is all-or-nothing. In every state the table holds the rows
\* it held when the run started, or those and the rows of all the accepted
\* records of the run, and never a part of them; while the transaction is
\* open the table is untouched; and a persistence fault in the load, at any
\* page or at the commit, leaves no row inserted and reaches the caller, which
\* ends the run marked failed.
C1_AllOrNothing ==
    /\ store = store0 \/ store = store0 (+) Batch
    /\ pc = "execute_values" => store = store0
    /\ fault = "load" => store = store0 /\ pc = "ended" /\ outcome = "failed"

\* The fault hits between two pages of a batch of more than one page.
C1_Witness ==
    /\ fault = "load"
    /\ page >= 1
    /\ page < PageCount(Len(validated))
    /\ store = store0

\* C2: When the fetch fails, returns no record, or returns only records the
\* validator rejects, the run stops at that stage: it never gets past the
\* check, and create_database_table, load_data_to_database,
\* get_daily_statistics and upload_to_google_sheets are not invoked in it.
C2_ShortCircuit ==
    NothingToLoad =>
        /\ calls = {}
        /\ pc \in {"fetched", "ended"}
        /\ pc = "ended" =>
              \/ outcome \in {"fetch_failed", "no_records", "none_valid"}
              \/ outcome = "failed" /\ raw_data = None
        /\ store = store0

\* A fetch of records that are all rejected has stopped the run.
C2_Witness ==
    /\ pc = "ended"
    /\ outcome = "none_valid"
    /\ Len(raw_data.items) > 0
    /\ calls = {}

\* C3: Persistence is idempotent across runs. When every run processes the
\* same window, the table after any successful run holds exactly the rows
\* a single run loads: the accepted records, each once.
C3_RerunAddsNoRows ==
    (pc = "ended" /\ outcome = "success") => store = Batch

\* C4: A successful load_data_to_database of N accepted records returns N,
\* and N rows were added to the table.
C4_LoadReturnsN ==
    loaded_count # None =>
        /\ loaded_count = PyInt(Len(validated))
        /\ RowsAdded = Len(validated)

\* The record is not a mapping, or lacks one of the four required keys.
LacksRequired(rec) ==
    \/ rec.type # "dict"
    \/ \E k \in {"lti_user_id", "passback_params", "attempt_type", "created_at"} :
            k \notin DOMAIN rec.fields

\* C5: For every raw record that lacks a required field, whatever its other
\* fields hold, validate_record returns None: it returns no normalized
\* attempt and it does not raise.
C5_MissingFieldRejected ==
    (pc = "validated" /\ LacksRequired(record)) => result = Return(None)

\* A mapping that lacks only created_at, and is valid otherwise, was rejected.
C5_Witness ==
    /\ pc = "validated"
    /\ record = RecNoDate
    /\ result = Return(None)

\* C6: When no row of the table has the date of the aggregate query,
\* get_daily_statistics returns no statistics and upload_to_google_sheets
\* is not invoked in that run.
C6_NoRowsNoStatistics ==
    ( /\ pc \in {"publish", "ended"}
      /\ "get_daily_statistics" \in calls
      /\ \A r \in BagToSet(store) : DateOf(r.created_at) # date_for_stats )
    => /\ stats = None
       /\ "upload_to_google_sheets" \notin calls

\* C7: Whenever statistics are produced, success_rate is 0 when submit_count
\* is 0, and otherwise the hundredth nearest to
\* successful_attempts / submit_count * 100; a table without submits on the
\* date yields statistics as any other does.
C7_SuccessRate ==
    pc = "queried" =>
        /\ stats # None
        /\ stats.successful_attempts =
              CountIn(store, {r \in BagToSet(store) :
                                /\ DateOf(r.created_at) = date_for_stats
                                /\ r.is_correct = PyTrue})
        /\ stats.submit_count =
              CountIn(store, {r \in BagToSet(store) :
                                /\ DateOf(r.created_at) = date_for_stats
                                /\ r.attempt_type = "submit"})
        /\ IF stats.submit_count = 0
           THEN stats.success_rate = 0
           ELSE LET d == stats.success_rate * stats.submit_count
                         - stats.successful_attempts * 10000
                IN  2 * d <= stats.submit_count /\ -2 * d <= stats.submit_count

\* Three correct submits of four give 75.0.
C7_Witness ==
    /\ pc = "queried"
    /\ stats # None
    /\ stats.submit_count = 4
    /\ stats.successful_attempts = 3
    /\ stats.success_rate = 7500

\* C8: A persistence fault of create_database_table or load_data_to_database
\* reaches main's handler: the run ends marked failed, never successful, and
\* no later stage of it is invoked (no load after a schema fault, no
\* aggregate and no publish after either).
C8_FaultFailsRun ==
    /\ fault = "schema" =>
          /\ pc = "ended" /\ outcome = "failed"
          /\ calls = {"create_database_table"}
    /\ fault = "load" =>
          /\ pc = "ended" /\ outcome = "failed"
          /\ calls = {"create_database_table", "load_data_to_database"}
    /\ outcome = "success" => fault = "none"

\* create_database_table has raised and the run has ended.
C8_Witness ==
    /\ fault = "schema"
    /\ outcome = "failed"
    /\ calls = {"create_database_table"}

\* C9: process_data accepts exactly the normalized forms of the records
\* validate_record accepts, in their input order, and counts the others as
\* skipped; a run that goes through to its end adds exactly one row per
\* accepted record.
C9_ProcessOrderAndCount ==
    Processed =>
        LET items == raw_data.items
            idx == AcceptedAt(items)
        IN  /\ Len(validated) = Cardinality(idx)
            /\ \A j \in DOMAIN validated :
                  \E i \in idx :
                      /\ Cardinality({k \in idx : k <= i}) = j
                      /\ validated[j] = validate_record(items[i]).value
            /\ skipped = Len(items) - Len(validated)
            /\ outcome = "success" =>
                  /\ RowsAdded = Cardinality(idx)
                  /\ store = store0 (+) Batch

\* A fetch of one valid and two invalid records ended with one row added.
C9_Witness ==
    /\ pc = "ended"
    /\ outcome = "success"
    /\ Len(raw_data.items) = 3
    /\ Len(validated) = 1
    /\ skipped = 2
    /\ RowsAdded = 1

\* C10: Every row the pipeline has stored, or is storing, has attempt_type
\* run or submit, so for every date the statistics have
\* total_attempts = run_count + submit_count.
C10_OnlyRunAndSubmitStored ==
    /\ \A r \in BagToSet(store) \cup BagToSet(txn) : r.attempt_type \in {"run", "submit"}
    /\ \A d \in Dates :
          LET s == get_daily_statistics(store, d) IN
          s.total_attempts = s.run_count + s.submit_count

\* The second run has loaded, the fetch holding a record of another kind, and
\* the statistics count rows.
C10_Witness ==
    /\ run = 2
    /\ pc = "ended"
    /\ outcome = "success"
    /\ \E i \in DOMAIN raw_data.items : raw_data.items[i] = RecPractice
    /\ stats # None
    /\ stats.total_attempts >= 2
    /\ stats.total_attempts = stats.run_count + stats.submit_count

=============================================================================
